---- MODULE Spec2Model ----
(***************************************************************************)
(* Model of quantecon_wasm/random/utilities.py: probvec, _probvec,         *)
(* _probvec_cpu, sample_without_replacement,                               *)
(* _sample_without_replacement_single and draw.                            *)
(*                                                                         *)
(* Floating-point values are binary floats with a MantBits-bit mantissa    *)
(* (float64 has 53).  A uniform in [0,1) is u / UDen with u in 0..UDen-1,  *)
(* as numpy's generators deliver multiples of 2^-53; every float is        *)
(* carried as its integer numerator over UDen.                             *)
(***************************************************************************)
EXTENDS Integers, Sequences, FiniteSets, TLC

VARIABLES
    args,     \* the arguments of the call being made (args.op names the function)
    r,        \* the array of uniforms the random source returned to the call
    ret,      \* what the call gave its caller: [status, err, value]
    pc,       \* position of the call: "call", "iter", "loop", "done"
    trial,    \* index of the row of r the comprehension of line 157 is at
    j,        \* loop variable of _sample_without_replacement_single
    pool,     \* pool of _sample_without_replacement_single
    out,      \* out of _sample_without_replacement_single
    rows,     \* the rows collected so far by line 155 / 157
    handle,   \* the generator object the caller holds: [seed, pos]
    glob,     \* numpy's module-level generator np.random: [seed, pos]
    before,   \* the caller's generator as it was when the call began
    ref       \* an earlier seeded call and its result, kept for comparison

vars == <<args, r, ret, pc, trial, j, pool, out, rows, handle, glob, before, ref>>

\* ---------------------------------------------------------------- bounds
MantBits == 3
MaxN == 3
MaxBatch == 3
MaxTrials == 2
MaxCdfLen == 2
MaxSize == 2
MaxSeed == 1
MaxPos == 2
MaxApiArg == 2

\* ------------------------------------------------------- float arithmetic
UDen == 2^MantBits
Grid == 0..(UDen - 1)

\* Python's None for an optional integer argument is the empty sequence, and
\* the integer t is <<t>>.
None == <<>>
Some(t) == <<t>>
Uninit == -1

Abs(x) == IF x < 0 THEN -x ELSE x

RECURSIVE BitLen(_)
BitLen(x) == IF x = 0 THEN 0 ELSE 1 + BitLen(x \div 2)

\* Round to nearest, ties to even, to MantBits significant bits.
RoundToMant(x) ==
    LET a == Abs(x)
        e == BitLen(a)
    IN  IF e <= MantBits THEN x
        ELSE LET s    == e - MantBits
                 q    == a \div (2^s)
                 rem  == a % (2^s)
                 half == 2^(s - 1)
                 up   == rem > half \/ (rem = half /\ q % 2 = 1)
                 m    == (IF up THEN q + 1 ELSE q) * (2^s)
             IN  IF x < 0 THEN -m ELSE m

FlSub(a, b) == RoundToMant(a - b)
FlAdd(a, b) == RoundToMant(a + b)
\* a is a numerator over UDen, i an integer converted to float.
FlMulInt(a, i) == RoundToMant(a * RoundToMant(i))
Floor(a) == a \div UDen

\* --------------------------------------------- sample_without_replacement
Arange(n) == [i \in 0..(n - 1) |-> i]
EmptyOut(k) == [i \in 1..k |-> Uninit]

\* Mutant: the range is not shrunk by j.
SelectIndexFull(rj, n, jj) == Floor(FlMulInt(rj, n))

\* idx = int(np.floor(r[j] * (n - j)))
SelectIndex(rj, n, jj) == Floor(FlMulInt(rj, n - jj))

\* Mutant: the selected slot is left as it is.
PoolKeep(p, idx, n, jj) == p

\* pool[idx] = pool[n - j - 1]
PoolReplace(p, idx, n, jj) == [p EXCEPT ![idx] = p[n - jj - 1]]

\* One pass of the loop body; an index outside the pool raises IndexError.
LoopBody(n, rr, jj, p, o) ==
    LET idx == SelectIndex(rr[jj + 1], n, jj)
    IN  IF idx \notin DOMAIN p
        THEN [ok |-> FALSE, pool |-> p, out |-> o]
        ELSE [ok |-> TRUE,
              pool |-> PoolReplace(p, idx, n, jj),
              out |-> [o EXCEPT ![jj + 1] = p[idx]]]

RECURSIVE SingleFrom(_, _, _, _, _)
SingleFrom(n, rr, jj, p, o) ==
    IF jj >= Len(rr) THEN [ok |-> TRUE, out |-> o]
    ELSE LET b == LoopBody(n, rr, jj, p, o)
         IN  IF b.ok THEN SingleFrom(n, rr, jj + 1, b.pool, b.out)
             ELSE [ok |-> FALSE, out |-> o]

SampleSingle(n, rr) == SingleFrom(n, rr, 0, Arange(n), EmptyOut(Len(rr)))

\* Mutant: later trials go on with the pool the trial before left.
TrialPoolShared(n) == IF trial = 0 THEN Arange(n) ELSE pool

\* The pool a trial starts from: each call of the single-trial function
\* builds its own np.arange(n).
TrialPool(n) == Arange(n)

Ok(v) == [status |-> "ok", err |-> None, value |-> v]
Raise(type, msg) == [status |-> "error", err |-> <<type, msg>>, value |-> None]
NoRet == [status |-> "none", err |-> None, value |-> None]

\* Mutant: n = 0 passes the first check.
ValidateSampleFromZero(n, k) ==
    IF n < 0 THEN Raise("ValueError", "n must be greater than 0")
    ELSE IF k > n
         THEN Raise("ValueError", "k must be smaller than or equal to n")
         ELSE NoRet

\* Lines 144-147: the error raised, or NoRet when both checks pass.
ValidateSample(n, k) ==
    IF n <= 0 THEN Raise("ValueError", "n must be greater than 0")
    ELSE IF k > n
         THEN Raise("ValueError", "k must be smaller than or equal to n")
         ELSE NoRet

\* size = k if num_trials is None else (num_trials, k), as <<rows, columns>>
SampleShape(k, t) == IF t = None THEN <<1, k>> ELSE <<t[1], k>>

ShapeOk(shape) == shape[1] >= 0 /\ shape[2] >= 0
NegDim == Raise("ValueError", "negative dimensions are not allowed")

\* Every array of the shape the random source can return.
Batches(shape) == [1..shape[1] -> [1..shape[2] -> Grid]]

SampleArgs ==
    {a \in [op : {"sample"}, n : (-1)..MaxN, k : (-1)..(MaxN + 1),
            num_trials : {None} \cup {Some(t) : t \in (-1)..MaxTrials}] :
        LET s == SampleShape(a.k, a.num_trials)
        IN  ShapeOk(s) => s[1] * s[2] <= MaxBatch}

Idle == [op |-> "none"]
NoGen == [seed |-> 0, pos |-> 0]
NoRef == [args |-> Idle, ret |-> NoRet]

InitSample ==
    /\ args \in SampleArgs
    /\ r = <<>>
    /\ ret = NoRet
    /\ pc = "call"
    /\ trial = 0 /\ j = 0
    /\ pool = <<>> /\ out = <<>> /\ rows = <<>>
    /\ handle = NoGen /\ glob = NoGen /\ before = NoGen /\ ref = NoRef

GenUnchanged == UNCHANGED <<handle, glob, before, ref>>

\* Lines 144-152: the checks, then the draw of the whole batch.
SampleCall ==
    /\ pc = "call" /\ args.op = "sample"
    /\ LET v == ValidateSample(args.n, args.k)
           s == SampleShape(args.k, args.num_trials)
       IN  IF v.status = "error"
           THEN /\ ret' = v /\ pc' = "done" /\ r' = r
           ELSE IF ~ShapeOk(s)
           THEN /\ ret' = NegDim /\ pc' = "done" /\ r' = r
           ELSE /\ r' \in Batches(s)
                /\ ret' = ret
                /\ pc' = "iter"
    /\ trial' = 0 /\ rows' = <<>>
    /\ UNCHANGED <<args, j, pool, out>>
    /\ GenUnchanged

\* Lines 155 / 157 calling the single-trial function on the next row:
\* lines 179-181.
BeginTrial ==
    /\ pc = "iter" /\ trial < Len(r)
    /\ pool' = TrialPool(args.n)
    /\ out' = EmptyOut(Len(r[trial + 1]))
    /\ j' = 0
    /\ pc' = "loop"
    /\ UNCHANGED <<args, r, ret, trial, rows>>
    /\ GenUnchanged

\* Lines 184-187: one iteration.
LoopIter ==
    /\ pc = "loop" /\ j < Len(r[trial + 1])
    /\ LET b == LoopBody(args.n, r[trial + 1], j, pool, out)
       IN  IF b.ok
           THEN /\ pool' = b.pool /\ out' = b.out /\ j' = j + 1
                /\ UNCHANGED <<pc, ret>>
           ELSE /\ ret' = Raise("IndexError", "index out of bounds")
                /\ pc' = "done"
                /\ UNCHANGED <<pool, out, j>>
    /\ UNCHANGED <<args, r, trial, rows>>
    /\ GenUnchanged

\* Line 189: return out, collected by the caller.
EndTrial ==
    /\ pc = "loop" /\ j = Len(r[trial + 1])
    /\ rows' = Append(rows, out)
    /\ trial' = trial + 1
    /\ pc' = "iter"
    /\ UNCHANGED <<args, r, ret, j, pool, out>>
    /\ GenUnchanged

\* Line 159.
SampleReturn ==
    /\ pc = "iter" /\ trial = Len(r)
    /\ ret' = Ok(IF args.num_trials = None THEN rows[1] ELSE rows)
    /\ pc' = "done"
    /\ UNCHANGED <<args, r, trial, j, pool, out, rows>>
    /\ GenUnchanged

NextSample == SampleCall \/ BeginTrial \/ LoopIter \/ EndTrial \/ SampleReturn

SpecSample == InitSample /\ [][NextSample]_vars

\* ---------------------------------------------------------------- probvec
RECURSIVE InsertSorted(_, _)
InsertSorted(s, x) ==
    IF s = <<>> THEN <<x>>
    ELSE IF x <= Head(s) THEN <<x>> \o s
    ELSE <<Head(s)>> \o InsertSorted(Tail(s), x)

RECURSIVE SortAscending(_)
SortAscending(s) == IF s = <<>> THEN <<>> ELSE InsertSorted(SortAscending(Tail(s)), Head(s))

\* Mutant: the row is used in the order it was drawn.
SortRowSkipped(rr) == rr

\* r.sort()
SortRow(rr) == SortAscending(rr)

\* _probvec(r, out) on one row: the sorted row r is left with, and the row
\* written to out; r[0] of an empty row raises IndexError.
ProbvecFill(rr) ==
    LET n == Len(rr)
        s == SortRow(rr)
    IN  IF n = 0 THEN [ok |-> FALSE, r |-> rr, out |-> <<>>]
        ELSE [ok |-> TRUE, r |-> s,
              out |-> [i \in 1..(n + 1) |->
                         IF i = 1 THEN s[1]
                         ELSE IF i <= n THEN FlSub(s[i], s[i - 1])
                         ELSE FlSub(UDen, s[n])]]

\* An array is [ndim, data]: data is a sequence for ndim = 1, a sequence of
\* rows for ndim = 2, and not looked at otherwise.
Array(d, x) == [ndim |-> d, data |-> x]

\* np.empty: storage nothing has written yet.
EmptyRows(m, k) == [i \in 1..m |-> [c \in 1..k |-> Uninit]]

\* _probvec_cpu(r, out): what the call returns or raises (ret), and the
\* caller's r and out arrays after it.
ProbvecCpu(ra, oa) ==
    IF ra.ndim = 1
    THEN LET f == ProbvecFill(ra.data)
         IN  IF f.ok
             THEN [ret |-> Ok(None), r |-> Array(1, f.r), out |-> oa]
             ELSE [ret |-> Raise("IndexError", "index out of bounds"),
                   r |-> ra, out |-> oa]
    ELSE IF ra.ndim = 2
    THEN LET f == [i \in DOMAIN ra.data |-> ProbvecFill(ra.data[i])]
         IN  IF \A i \in DOMAIN f : f[i].ok
             THEN [ret |-> Ok(None),
                   r |-> Array(2, [i \in DOMAIN f |-> f[i].r]),
                   out |-> Array(2, [i \in DOMAIN f |-> f[i].out])]
             ELSE [ret |-> Raise("IndexError", "index out of bounds"),
                   r |-> ra, out |-> oa]
    ELSE [ret |-> Raise("ValueError", "Input r must be a 1D or 2D array."),
          r |-> ra, out |-> oa]

\* Mutant: one column too many is drawn.
ProbvecShapeWide(m, k) == <<m, k>>

\* size=(m, k-1)
ProbvecShape(m, k) == <<m, k - 1>>

\* Lines 47-52 of probvec, given the batch the generator returned.
ProbvecOf(m, k, batch) ==
    LET c == ProbvecCpu(Array(2, batch), Array(2, EmptyRows(m, k)))
    IN  IF c.ret.status = "ok" THEN Ok(c.out.data) ELSE c.ret

\* Lines 42-43: np.ones((m, k)).
Ones(m, k) ==
    IF m < 0 THEN NegDim ELSE Ok([i \in 1..m |-> [c \in 1..k |-> UDen]])

ProbvecArgs ==
    {a \in [op : {"probvec"}, m : (-1)..MaxBatch, k : 0..(MaxBatch + 1)] :
        (a.m >= 0 /\ a.k >= 2) => a.m * (a.k - 1) <= MaxBatch}

\* The arguments of a direct call of _probvec_cpu: r of 0 to 3 dimensions and
\* an out of np.empty.
CpuArgs(ra, oa) == [op |-> "probvec_cpu", r |-> ra, out |-> oa]

InitProbvec ==
    /\ \/ args \in ProbvecArgs
       \/ \E n \in 0..MaxBatch : \E x \in [1..n -> Grid] :
              args = CpuArgs(Array(1, x), Array(1, EmptyOut(n + 1)))
       \/ \E a \in {b \in ProbvecArgs : b.m >= 0 /\ b.k >= 1} :
              \E x \in Batches(ProbvecShape(a.m, a.k)) :
                 args = CpuArgs(Array(2, x), Array(2, EmptyRows(a.m, a.k)))
       \/ \E d \in {0, 3} :
              args = CpuArgs(Array(d, <<>>), Array(1, EmptyOut(1)))
    /\ r = <<>>
    /\ ret = NoRet
    /\ pc = "call"
    /\ trial = 0 /\ j = 0
    /\ pool = <<>> /\ out = <<>> /\ rows = <<>>
    /\ handle = NoGen /\ glob = NoGen /\ before = NoGen /\ ref = NoRef

\* probvec(m, k): the whole call, the generator returning any batch of the
\* shape asked for.
ProbvecCall ==
    /\ pc = "call" /\ args.op = "probvec"
    /\ LET s == ProbvecShape(args.m, args.k)
       IN  IF args.k = 1
           THEN /\ ret' = Ones(args.m, args.k) /\ r' = r
           ELSE IF ~ShapeOk(s)
           THEN /\ ret' = NegDim /\ r' = r
           ELSE \E batch \in Batches(s) :
                    /\ r' = batch
                    /\ ret' = ProbvecOf(args.m, args.k, batch)
    /\ pc' = "done"
    /\ UNCHANGED <<args, trial, j, pool, out, rows>>
    /\ GenUnchanged

\* _probvec_cpu(r, out) called directly: r and out become the caller's
\* arrays as the call leaves them.
ProbvecCpuCall ==
    /\ pc = "call" /\ args.op = "probvec_cpu"
    /\ LET c == ProbvecCpu(args.r, args.out)
       IN  /\ ret' = c.ret /\ r' = c.r /\ out' = c.out
    /\ pc' = "done"
    /\ UNCHANGED <<args, trial, j, pool, rows>>
    /\ GenUnchanged

NextProbvec == ProbvecCall \/ ProbvecCpuCall

SpecProbvec == InitProbvec /\ [][NextProbvec]_vars

\* ------------------------------------------------------------------- draw
\* searchsorted(a, v) of quantecon_wasm.util: a bisection for the insertion
\* index of v, the least i with a[i] > v (len(a) when there is none).
RECURSIVE Bisect(_, _, _, _)
Bisect(a, v, lo, hi) ==
    IF lo >= hi - 1 THEN hi
    ELSE LET mid == (lo + hi) \div 2
         IN  IF v < a[mid + 1] THEN Bisect(a, v, lo, mid)
             ELSE Bisect(a, v, mid, hi)

Searchsorted(a, v) == Bisect(a, v, -1, Len(a))

\* Mutant: every element is searched with the first uniform.
DrawIndicesFirst(cdf, rs) == [i \in 1..Len(rs) |-> Searchsorted(cdf, rs[1])]

\* Lines 222-224: out[i] = searchsorted(cdf, rs[i]) for i in range(size)
DrawIndices(cdf, rs) == [i \in 1..Len(rs) |-> Searchsorted(cdf, rs[i])]

NonDecreasing(s) == \A i \in 1..(Len(s) - 1) : s[i] <= s[i + 1]

\* Non-decreasing cdfs on the grid whose last entry is 1 or the float just
\* below it, the largest value a uniform can take.
Cdfs ==
    {c \in UNION {[1..n -> 0..UDen] : n \in 1..MaxCdfLen} :
        NonDecreasing(c) /\ c[Len(c)] >= UDen - 1}

DrawArgs ==
    [op : {"draw"}, cdf : Cdfs,
     size : {None} \cup {Some(n) : n \in (-1)..MaxSize}]

InitDraw ==
    /\ args \in DrawArgs
    /\ r = <<>>
    /\ ret = NoRet
    /\ pc = "call"
    /\ trial = 0 /\ j = 0
    /\ pool = <<>> /\ out = <<>> /\ rows = <<>>
    /\ handle = NoGen /\ glob = NoGen /\ before = NoGen /\ ref = NoRef

\* draw(cdf, size) given the uniforms rs that np.random.random returned.
DrawOf(cdf, size, rs) ==
    IF size # None THEN Ok(DrawIndices(cdf, rs))
    ELSE Ok(Searchsorted(cdf, rs[1]))

\* How many uniforms draw asks np.random.random for.
DrawCount(size) == IF size # None THEN size[1] ELSE 1

\* draw(cdf, size): the whole call, np.random.random returning any uniforms.
DrawCall ==
    /\ pc = "call" /\ args.op = "draw"
    /\ IF DrawCount(args.size) < 0
       THEN ret' = NegDim /\ r' = r
       ELSE \E rs \in [1..DrawCount(args.size) -> Grid] :
                /\ r' = rs
                /\ ret' = DrawOf(args.cdf, args.size, rs)
    /\ pc' = "done"
    /\ UNCHANGED <<args, trial, j, pool, out, rows>>
    /\ GenUnchanged

NextDraw == DrawCall

SpecDraw == InitDraw /\ [][NextDraw]_vars

\* ------------------------------------------------- calls with a generator
\* A generator is [seed, pos]: the stream its seed fixes and how many
\* uniforms it has delivered.  Uniform(seed, pos) is uniform number pos of
\* the stream of seed.
Seeds == 0..MaxSeed
Uniform(seed, pos) == ((5 * seed + 3) * (pos + 1) + pos * pos) % UDen
Gen(seed) == [seed |-> seed, pos |-> 0]
Advance(g, cnt) == [g EXCEPT !.pos = @ + cnt]

\* generator.random(size=shape): the next shape[1] * shape[2] uniforms, row
\* by row.
TakeBatch(g, shape) ==
    [i \in 1..shape[1] |->
        [c \in 1..shape[2] |-> Uniform(g.seed, g.pos + (i - 1) * shape[2] + c - 1)]]

\* The random_state argument: None, an integer seed, a generator object, or
\* anything else.
RsNone == [kind |-> "none", seed |-> 0]
RsInt(sd) == [kind |-> "int", seed |-> sd]
RsGenerator == [kind |-> "generator", seed |-> 0]
RsOther == [kind |-> "other", seed |-> 0]
RandomStates == {RsNone, RsGenerator, RsOther} \cup {RsInt(sd) : sd \in Seeds}

BadSeed == Raise("ValueError", "cannot be used to seed a generator")

\* check_random_state(rs) of quantecon_wasm.util: None gives a fresh
\* generator seeded from the system's entropy, an integer a fresh generator
\* with that seed, a generator itself; anything else is rejected.
CheckRandomState(rs, entropy) ==
    IF rs.kind = "none" THEN [ok |-> TRUE, which |-> "fresh", gen |-> Gen(entropy)]
    ELSE IF rs.kind = "int" THEN [ok |-> TRUE, which |-> "fresh", gen |-> Gen(rs.seed)]
    ELSE IF rs.kind = "generator" THEN [ok |-> TRUE, which |-> "handle", gen |-> handle]
    ELSE [ok |-> FALSE, which |-> "fresh", gen |-> NoGen]

\* Mutant: probvec uses the module-level generator whatever random_state is.
ProbvecRngGlobal(rs, entropy) == [ok |-> TRUE, which |-> "global", gen |-> glob]

\* Mutant: the sampler uses the module-level generator whatever random_state
\* is, as draw does.
SampleRngGlobal(rs, entropy) == [ok |-> TRUE, which |-> "global", gen |-> glob]

\* Line 46: random_state = check_random_state(random_state)
ProbvecRng(rs, entropy) == CheckRandomState(rs, entropy)

\* Line 151: random_state = check_random_state(random_state)
SampleRng(rs, entropy) == CheckRandomState(rs, entropy)

\* What a call did: what it returned or raised, the uniforms it was given,
\* which generator delivered them and how many.
Outcome(rt, batch, which, cnt) ==
    [ret |-> rt, r |-> batch, which |-> which, cnt |-> cnt]

\* Lines 154-159, given the batch.
SampleOf(n, t, batch) ==
    LET res == [i \in DOMAIN batch |-> SampleSingle(n, batch[i])]
    IN  IF \E i \in DOMAIN res : ~res[i].ok
        THEN Raise("IndexError", "index out of bounds")
        ELSE IF t = None THEN Ok(res[1].out)
        ELSE Ok([i \in DOMAIN res |-> res[i].out])

\* sample_without_replacement(n, k, num_trials, random_state), whole.
SampleWithoutReplacement(a, entropy) ==
    LET v == ValidateSample(a.n, a.k)
        s == SampleShape(a.k, a.num_trials)
        g == SampleRng(a.rs, entropy)
    IN  IF v.status = "error" THEN Outcome(v, <<>>, "fresh", 0)
        ELSE IF ~g.ok THEN Outcome(BadSeed, <<>>, "fresh", 0)
        ELSE IF ~ShapeOk(s) THEN Outcome(NegDim, <<>>, g.which, 0)
        ELSE LET batch == TakeBatch(g.gen, s)
             IN  Outcome(SampleOf(a.n, a.num_trials, batch), batch,
                         g.which, s[1] * s[2])

\* probvec(m, k, random_state), whole.
Probvec(a, entropy) ==
    LET s == ProbvecShape(a.m, a.k)
        g == ProbvecRng(a.rs, entropy)
    IN  IF a.k = 1 THEN Outcome(Ones(a.m, a.k), <<>>, "fresh", 0)
        ELSE IF ~g.ok THEN Outcome(BadSeed, <<>>, "fresh", 0)
        ELSE IF ~ShapeOk(s) THEN Outcome(NegDim, <<>>, g.which, 0)
        ELSE LET batch == TakeBatch(g.gen, s)
             IN  Outcome(ProbvecOf(a.m, a.k, batch), batch,
                         g.which, s[1] * s[2])

\* draw(cdf, size), whole: its uniforms come from the module-level
\* generator (lines 221 and 227).
Draw(a) ==
    LET cnt == DrawCount(a.size)
    IN  IF cnt < 0 THEN Outcome(NegDim, <<>>, "global", 0)
        ELSE LET rs == TakeBatch(glob, <<1, cnt>>)[1]
             IN  Outcome(DrawOf(a.cdf, a.size, rs), rs, "global", cnt)

ApiSampleArgs ==
    {a \in [op : {"sample"}, n : (-1)..MaxApiArg, k : 0..(MaxApiArg + 1),
            num_trials : {None} \cup {Some(t) : t \in 0..MaxApiArg},
            rs : RandomStates] :
        a.num_trials # None => a.num_trials[1] * a.k <= MaxApiArg + 1}

ApiProbvecArgs ==
    [op : {"probvec"}, m : 0..MaxApiArg, k : 0..(MaxApiArg + 1), rs : RandomStates]

ApiDrawArgs ==
    [op : {"draw"}, cdf : {<<(4 * UDen + 9) \div 10, UDen>>},
     size : {None} \cup {Some(n) : n \in 0..MaxApiArg}]

ApiArgs == ApiSampleArgs \cup ApiProbvecArgs \cup ApiDrawArgs

\* The generators a caller can hold: any stream, any number of uniforms
\* already taken from it.
Gens == [seed : Seeds, pos : 0..MaxPos]

\* A caller about to make one call, its generator and numpy's in any state.
Init ==
    /\ args \in ApiArgs
    /\ r = <<>>
    /\ ret = NoRet
    /\ pc = "call"
    /\ trial = 0 /\ j = 0
    /\ pool = <<>> /\ out = <<>> /\ rows = <<>>
    /\ handle \in Gens
    /\ glob \in Gens
    /\ before = handle
    /\ ref = NoRef

\* The generator that delivered a call's uniforms has moved on.
Drawn(c) ==
    /\ handle' = IF c.which = "handle" THEN Advance(handle, c.cnt) ELSE handle
    /\ glob' = IF c.which = "global" THEN Advance(glob, c.cnt) ELSE glob

\* The call a with outcome c is made and the caller has its result.
Called(a, c) ==
    /\ Drawn(c)
    /\ before' = handle
    /\ args' = a /\ r' = c.r /\ ret' = c.ret
    /\ UNCHANGED <<trial, j, pool, out, rows>>

\* The whole call a; entropy is what the system would seed a fresh
\* generator with.
CallOf(a, entropy) ==
    IF a.op = "sample" THEN SampleWithoutReplacement(a, entropy)
    ELSE IF a.op = "probvec" THEN Probvec(a, entropy)
    ELSE Draw(a)

CallSample ==
    /\ pc = "call" /\ args.op = "sample"
    /\ \E entropy \in Seeds :
           Called(args, SampleWithoutReplacement(args, entropy))
    /\ pc' = "done"
    /\ UNCHANGED ref

CallProbvec ==
    /\ pc = "call" /\ args.op = "probvec"
    /\ \E entropy \in Seeds : Called(args, Probvec(args, entropy))
    /\ pc' = "done"
    /\ UNCHANGED ref

CallDraw ==
    /\ pc = "call" /\ args.op = "draw"
    /\ Called(args, Draw(args))
    /\ pc' = "done"
    /\ UNCHANGED ref

Next == CallSample \/ CallProbvec \/ CallDraw

Spec == Init /\ [][Next]_vars

\* ------------------------------------------- two calls with the same seed
\* The calls with an integer seed that pass the argument checks.
SeededArgs ==
    {a \in ApiSampleArgs : a.rs.kind = "int" /\ a.n > 0 /\ a.k <= a.n}
        \cup {a \in ApiProbvecArgs : a.rs.kind = "int" /\ a.k >= 1}

\* The calls that leave a generator changed: those given the caller's
\* generator, and draw.
AdvancingArgs ==
    {a \in ApiSampleArgs \cup ApiProbvecArgs : a.rs.kind = "generator"}
        \cup ApiDrawArgs

InitSeeded ==
    /\ args = Idle
    /\ r = <<>>
    /\ ret = NoRet
    /\ pc = "idle"
    /\ trial = 0 /\ j = 0
    /\ pool = <<>> /\ out = <<>> /\ rows = <<>>
    /\ handle \in {Gen(sd) : sd \in Seeds}
    /\ glob \in {Gen(sd) : sd \in Seeds}
    /\ before = handle
    /\ ref = NoRef

\* A call with an integer seed, whose result is kept.
FirstCall ==
    /\ pc = "idle"
    /\ \E a \in SeededArgs :
           LET c == CallOf(a, 0)
           IN  /\ Called(a, c)
               /\ ref' = [args |-> a, ret |-> c.ret]
    /\ pc' = "between"

\* Any call made in between that moves a generator; its result is dropped.
Between ==
    /\ pc = "between"
    /\ \E a \in AdvancingArgs : Drawn(CallOf(a, 0))
    /\ handle'.pos <= MaxPos /\ glob'.pos <= MaxPos
    /\ UNCHANGED <<args, r, ret, pc, trial, j, pool, out, rows, before, ref>>

\* The first call made again with the same arguments and seed.
SecondCall ==
    /\ pc = "between"
    /\ Called(ref.args, CallOf(ref.args, 0))
    /\ pc' = "again"
    /\ UNCHANGED ref

NextSeeded == FirstCall \/ Between \/ SecondCall

SpecSeeded == InitSeeded /\ [][NextSeeded]_vars

\* ------------------------------------------------------------------ claims
Distinct(s) == \A a, b \in DOMAIN s : a # b => s[a] # s[b]
Range(s) == {s[i] : i \in DOMAIN s}
IsSample(s, n, k) ==
    /\ DOMAIN s = 1..k
    /\ \A i \in 1..k : s[i] \in 0..(n - 1)
    /\ Distinct(s)

ValidSample == args.op = "sample" /\ args.n > 0 /\ 0 <= args.k /\ args.k <= args.n

\* C1: with num_trials = None, n > 0 and 0 <= k <= n the call returns k
\* pairwise distinct integers of [0, n); for k = n the result holds every
\* value of 0..n-1.
C1_DistinctSample ==
    (pc = "done" /\ ValidSample /\ args.num_trials = None) =>
        /\ ret.status = "ok"
        /\ IsSample(ret.value, args.n, args.k)
        /\ (args.k = args.n => Range(ret.value) = 0..(args.n - 1))

C1_Witness ==
    /\ pc = "done" /\ ValidSample /\ args.num_trials = None
    /\ args.n = MaxN /\ args.k = MaxN
    /\ ret.status = "ok" /\ ret.value[1] # 0 /\ ret.value[MaxN] # MaxN - 1

\* C5: with num_trials = t >= 0 the call returns t rows in trial order, row i
\* being the single-trial algorithm run on row i of the batch from a fresh
\* identity pool, and each row k distinct integers of [0, n).
C5_TrialRows ==
    (pc = "done" /\ ValidSample /\ args.num_trials # None
        /\ args.num_trials[1] >= 0) =>
        /\ ret.status = "ok"
        /\ Len(ret.value) = args.num_trials[1]
        /\ \A i \in 1..Len(ret.value) :
              /\ ret.value[i] = SampleSingle(args.n, r[i]).out
              /\ IsSample(ret.value[i], args.n, args.k)

C5_Witness ==
    /\ pc = "done" /\ ValidSample /\ args.num_trials = Some(2)
    /\ args.k = 1 /\ ret.status = "ok"
    /\ r[1] = r[2] /\ ret.value[1] = ret.value[2] /\ ret.value[1][1] # 0

\* C9: at the start of every iteration j of the single-trial loop (and at its
\* exit) the first n-j pool slots hold pairwise distinct values, exactly
\* 0..n-1 without out[0..j-1], and the index the iteration computes lies in
\* 0..n-j-1.
C9_LoopInvariant ==
    (pc = "loop" /\ ValidSample) =>
        LET n == args.n
            row == r[trial + 1]
            prefix == 0..(n - j - 1)
        IN  /\ j <= Len(row) /\ Len(row) <= n
            /\ prefix \subseteq DOMAIN pool
            /\ \A a, b \in prefix : a # b => pool[a] # pool[b]
            /\ {pool[i] : i \in prefix} = (0..(n - 1)) \ {out[i] : i \in 1..j}
            /\ j < Len(row) => SelectIndex(row[j + 1], n, j) \in prefix

C9_Witness ==
    /\ pc = "loop" /\ ValidSample /\ args.n = MaxN /\ j = 2
    /\ pool[0] = MaxN - 1 /\ out[1] = 0 /\ out[2] # MaxN - 1

\* The sum of a row, added left to right in floating point.
RECURSIVE SumTo(_, _)
SumTo(row, i) == IF i = 0 THEN 0 ELSE FlAdd(SumTo(row, i - 1), row[i])

Count(s, v) == Cardinality({i \in DOMAIN s : s[i] = v})

\* row is the first sorted value of src, the successive gaps, and 1 minus the
\* largest: its running sums are the values of src in ascending order.
IsGapsOf(row, src) ==
    LET n == Len(src)
        run == [i \in 1..n |-> SumTo(row, i)]
    IN  /\ Len(row) = n + 1
        /\ \A i \in 1..(n - 1) : run[i] <= run[i + 1]
        /\ \A v \in 0..UDen : Count(run, v) = Count(src, v)
        /\ row[n + 1] = UDen - run[n]

\* C2: for m >= 0 and k >= 1 probvec returns m rows of k entries, every entry
\* >= 0, every row summing exactly to 1 and built from the sorted row of
\* uniforms by gaps; for k = 1 every row is [1].
C2_ProbabilityRows ==
    (pc = "done" /\ args.op = "probvec" /\ args.m >= 0 /\ args.k >= 1) =>
        /\ ret.status = "ok"
        /\ Len(ret.value) = args.m
        /\ \A i \in 1..args.m :
              LET row == ret.value[i]
              IN  /\ Len(row) = args.k
                  /\ \A c \in 1..args.k : row[c] >= 0
                  /\ SumTo(row, args.k) = UDen
                  /\ IF args.k = 1 THEN row = <<UDen>> ELSE IsGapsOf(row, r[i])

C2_Witness ==
    /\ pc = "done" /\ args.op = "probvec" /\ args.m >= 1 /\ args.k = 3
    /\ ret.status = "ok"
    /\ r[1][1] > r[1][2] /\ r[1][2] > 0
    /\ ret.value[1] = <<r[1][2], r[1][1] - r[1][2], UDen - r[1][1]>>

\* C10: _probvec_cpu with a 1-dimensional r of length L hands its caller a
\* probability vector of length L+1; with a 2-dimensional r it fills row i of
\* the caller's out from row i of r; any other dimensionality raises
\* ValueError.
C10_CpuResult ==
    (pc = "done" /\ args.op = "probvec_cpu") =>
        IF args.r.ndim = 1
        THEN Len(args.r.data) >= 1 =>
               /\ ret.status = "ok"
               /\ \/ ret.value = ProbvecFill(args.r.data).out
                  \/ out.data = ProbvecFill(args.r.data).out
        ELSE IF args.r.ndim = 2
        THEN (\A i \in DOMAIN args.r.data : Len(args.r.data[i]) >= 1) =>
               /\ ret.status = "ok"
               /\ \A i \in DOMAIN args.r.data :
                     out.data[i] = ProbvecFill(args.r.data[i]).out
        ELSE ret.status = "error" /\ ret.err[1] = "ValueError"

\* C3: sample_without_replacement fails with 'n must be greater than 0' when
\* n <= 0, whatever k is, and with 'k must be smaller than or equal to n' when
\* n > 0 and k > n; it fails with no output and no uniform drawn, the
\* caller's generator left as it was.
C3_RejectsBadSizes ==
    (pc = "done" /\ args.op = "sample" /\ (args.n <= 0 \/ args.k > args.n)) =>
        /\ ret = Raise("ValueError",
                       IF args.n <= 0 THEN "n must be greater than 0"
                       ELSE "k must be smaller than or equal to n")
        /\ r = <<>>
        /\ handle = before

C3_Witness ==
    /\ pc = "done" /\ args.op = "sample"
    /\ args.n = 0 /\ args.k = 1 /\ args.rs.kind = "generator"
    /\ ret.status = "error" /\ ret.err[2] = "n must be greater than 0"
    /\ handle.pos > 0 /\ handle = before

\* C4 as claimed: every call of probvec and of sample_without_replacement
\* whose random_state is malformed fails with InvalidArgument (ValueError)
\* and returns nothing, k = 1 for probvec included.
C4_MalformedAlwaysRejected ==
    (pc = "done" /\ args.op \in {"probvec", "sample"}
        /\ args.rs.kind = "other") =>
        ret.status = "error" /\ ret.err[1] = "ValueError" /\ ret.value = None

\* C4 as amended: every call of sample_without_replacement, and every call
\* of probvec with k # 1, whose random_state is malformed fails with
\* InvalidArgument (ValueError) and returns nothing.
C4_MalformedRejected ==
    (pc = "done" /\ args.op \in {"probvec", "sample"}
        /\ args.rs.kind = "other"
        /\ ~(args.op = "probvec" /\ args.k = 1)) =>
        ret.status = "error" /\ ret.err[1] = "ValueError" /\ ret.value = None

C4_Witness ==
    /\ pc = "done" /\ args.op = "probvec" /\ args.rs.kind = "other"
    /\ args.m = 2 /\ args.k = 2 /\ ret = BadSeed

\* C7: a call of probvec or of sample_without_replacement with an integer
\* seed, made again with the same arguments after any calls in between,
\* returns the same result.
C7_SeededReproducible == pc = "again" => ret = ref.ret

C7_Witness ==
    /\ pc = "again" /\ args.op = "sample" /\ args.k = 2
    /\ ret.status = "ok" /\ ret = ref.ret
    /\ handle.pos > 0 /\ glob.pos > 0

\* C8: probvec given the caller's generator takes exactly m*(k-1) uniforms
\* from it when k >= 2 and none when k = 1.
C8_ProbvecDraws ==
    (pc = "done" /\ args.op = "probvec" /\ args.rs.kind = "generator"
        /\ args.m >= 0 /\ args.k >= 1) =>
        /\ ret.status = "ok"
        /\ handle = Advance(before,
                            IF args.k = 1 THEN 0 ELSE args.m * (args.k - 1))

C8_Witness ==
    /\ pc = "done" /\ args.op = "probvec" /\ args.rs.kind = "generator"
    /\ args.m = 2 /\ args.k = 3 /\ before.pos = 1 /\ handle.pos = 5
    /\ ret.status = "ok"

\* idx is the leftmost index (from 0) of cdf whose entry is greater than v.
IsLeftmostAbove(cdf, v, idx) ==
    /\ idx \in 0..(Len(cdf) - 1)
    /\ cdf[idx + 1] > v
    /\ \A i \in 1..idx : cdf[i] <= v

\* cumsum([0.4, 0.6]): 0.4 lies above exactly the uniforms u/UDen with
\* u < ceil(0.4 * UDen).
ExampleCdf == <<(4 * UDen + 9) \div 10, UDen>>

\* C6: for a non-decreasing cdf whose last entry is above every uniform and
\* size s >= 0, draw returns exactly s indices, element i the leftmost index
\* whose cdf entry is greater than the i-th uniform, hence in [0, L-1]; with
\* size omitted it returns one such index; for cumsum([0.4, 0.6]) every index
\* is 0 or 1.
C6_DrawIndices ==
    (pc = "done" /\ args.op = "draw" /\ args.cdf[Len(args.cdf)] > UDen - 1
        /\ DrawCount(args.size) >= 0) =>
        /\ ret.status = "ok"
        /\ IF args.size = None
           THEN /\ IsLeftmostAbove(args.cdf, r[1], ret.value)
                /\ args.cdf = ExampleCdf => ret.value \in {0, 1}
           ELSE /\ Len(ret.value) = args.size[1]
                /\ \A i \in 1..Len(ret.value) :
                      /\ IsLeftmostAbove(args.cdf, r[i], ret.value[i])
                      /\ args.cdf = ExampleCdf => ret.value[i] \in {0, 1}

C6_Witness ==
    /\ pc = "done" /\ args.op = "draw" /\ args.cdf = ExampleCdf
    /\ args.size = Some(2) /\ ret.status = "ok" /\ ret.value = <<1, 0>>

====
